---- MODULE Spec2Model ----
(***************************************************************************)
(* Model of awswrangler/catalog/_add.py: the batch partition registrar     *)
(* (_add_partitions and its four public entry points) and the column       *)
(* appender (add_column), run against a Glue catalog whose responses are    *)
(* chosen nondeterministically.                                             *)
(*                                                                          *)
(* Spec        one call of add_{csv,json,parquet,orc}_partitions            *)
(* SpecColumn  two concurrent callers of add_column on the same table       *)
(***************************************************************************)
EXTENDS Integers, Sequences, FiniteSets, TLC

VARIABLES
    \* ---- partition registration ----
    fmt,                \* which public operation is called: "csv", "json", "parquet", "orc"
    partitions_values,  \* the location -> values mapping, as its keys in insertion order
    pc,                 \* position of the call
    idx,                \* number of chunks the for-loop of _add_partitions has taken
    res,                \* response of the last batch_create_partition
    exception,          \* the exception the call ended with, or NoException
    requests,           \* every request sent to the catalog, in issue order
    chunks,             \* the chunks _add_partitions computed from its inputs
    catalog,            \* locations of the partitions the catalog table holds
    \* ---- column append ----
    table,              \* the catalog's table definition
    args,               \* per caller: column_name, column_type, column_comment
    cpc,                \* per caller: position in add_column
    table_res,          \* per caller: what get_table returned
    cres,               \* per caller: what update_table returned
    cexception,         \* per caller: the exception the call ended with
    calls               \* per caller: the remote calls it issued, in order

pvars == <<chunks, fmt, partitions_values, pc, idx, res, exception, requests, catalog>>
cvars == <<table, args, cpc, table_res, cres, cexception, calls>>
vars == <<chunks, fmt, partitions_values, pc, idx, res, exception, requests, catalog,
          table, args, cpc, table_res, cres, cexception, calls>>

(***************************************************************************)
(* Bounds of the model and constants of the program.                        *)
(***************************************************************************)
\* max_length of a chunk
ChunkLen == 100
\* largest location -> values mapping
MaxRecords == 201
\* longest error list a bulk-create response carries
MaxErrors == 2
\* most partitions of the mapping that the catalog already holds
MaxPreexisting == 1
\* longest error list an update_table response carries
MaxUpdateErrors == 1
\* most columns the table has before add_column runs
MaxInitColumns == 2

Formats == {"csv", "json", "parquet", "orc"}

NoException == [type |-> "none"]
NoResponse == [ResponseMetadata |-> "unset"]

(***************************************************************************)
(* Collaborators outside _add.py.                                           *)
(***************************************************************************)
\* _utils.chunkify(lst, max_length): consecutive chunks of at most max_length
\* elements, the last one possibly shorter; no chunk for an empty list.
RECURSIVE chunkify(_, _)
chunkify(lst, max_length) ==
    IF Len(lst) = 0 THEN <<>>
    ELSE IF Len(lst) <= max_length THEN <<lst>>
    ELSE <<SubSeq(lst, 1, max_length)>>
         \o chunkify(SubSeq(lst, max_length + 1, Len(lst)), max_length)

\* _csv/_json/_parquet/_orc_partition_definition: one partition-input record
\* per location, carrying the location and the format's serde.
partition_definition(f, location) ==
    [Location |-> location, SerDe |-> f]

\* str(): python's rendering of the error list.
Str(errors) == [repr |-> errors]

(***************************************************************************)
(* The catalog service: batch_create_partition.                             *)
(***************************************************************************)
AlreadyExists == "AlreadyExistsException"
InternalFailure == "InternalServiceException"

\* The shapes a per-record error comes in.
ErrorShapes == {"NoDetail", "DetailNoCode", "AlreadyExists", "OtherCode"}

ErrorEntry(shape, location) ==
    CASE shape = "NoDetail" ->
            [PartitionValues |-> location]
      [] shape = "DetailNoCode" ->
            [PartitionValues |-> location,
             ErrorDetail |-> [ErrorMessage |-> "failed"]]
      [] shape = "AlreadyExists" ->
            [PartitionValues |-> location,
             ErrorDetail |-> [ErrorCode |-> AlreadyExists, ErrorMessage |-> "exists"]]
      [] shape = "OtherCode" ->
            [PartitionValues |-> location,
             ErrorDetail |-> [ErrorCode |-> InternalFailure, ErrorMessage |-> "failed"]]

\* Number of positions 1..n of a shape sequence that are (are not) AlreadyExists.
CountAE(shapes, n) == Cardinality({i \in 1..n : shapes[i] = "AlreadyExists"})
CountFail(shapes, n) == Cardinality({i \in 1..n : shapes[i] # "AlreadyExists"})

\* The records of a chunk the catalog already holds, and those it does not.
Existing(chunk, cat) == SelectSeq(chunk, LAMBDA r : r.Location \in cat)
Fresh(chunk, cat) == SelectSeq(chunk, LAMBDA r : r.Location \notin cat)

\* The shapes of the error lists the service may answer with when it already
\* holds nExisting records of the chunk and nFresh it does not: one
\* AlreadyExists entry for every record it already holds, and entries of any
\* other shape for records it fails to create, in any order.
ErrorShapeLists(nExisting, nFresh) ==
    UNION { { s \in [1..n -> ErrorShapes] :
                /\ CountAE(s, n) = nExisting
                /\ CountFail(s, n) <= nFresh }
            : n \in nExisting..MaxErrors }

\* The error list of the given shapes: the i-th AlreadyExists entry names the
\* i-th record already held, the i-th other entry the i-th record not held.
ErrorList(shapes, existing, fresh) ==
    [i \in 1..Len(shapes) |->
        IF shapes[i] = "AlreadyExists"
        THEN ErrorEntry(shapes[i], existing[CountAE(shapes, i)].Location)
        ELSE ErrorEntry(shapes[i], fresh[CountFail(shapes, i)].Location)]

\* The locations a chunk adds to the catalog: its records without an error entry.
Created(errors, chunk) ==
    {chunk[i].Location : i \in 1..Len(chunk)}
        \ {errors[i].PartitionValues : i \in 1..Len(errors)}

\* The responses to a chunk: the error list under "Errors", or no "Errors"
\* key at all when there is nothing to report.
Responses(chunk, cat) ==
    LET existing == Existing(chunk, cat)
        fresh    == Fresh(chunk, cat)
    IN  { [ResponseMetadata |-> "ok", Errors |-> ErrorList(s, existing, fresh)]
            : s \in ErrorShapeLists(Len(existing), Len(fresh)) }
        \cup (IF Len(existing) = 0
              THEN {[ResponseMetadata |-> "ok"]} ELSE {})

(***************************************************************************)
(* _add_partitions                                                          *)
(***************************************************************************)
inputs == [k \in 1..Len(partitions_values) |->
              partition_definition(fmt, partitions_values[k])]

\* A request that loses the last record of its chunk.
BatchCreateRequestTruncated(chunk) ==
    [Operation |-> "batch_create_partition",
     DatabaseName |-> "database", TableName |-> "table",
     PartitionInputList |-> SubSeq(chunk, 1, Len(chunk) - 1)]

\* The request of one loop iteration (lines 35-37).
BatchCreateRequest(chunk) ==
    [Operation |-> "batch_create_partition",
     DatabaseName |-> "database", TableName |-> "table",
     PartitionInputList |-> chunk]

\* A scan that raises on every error code, AlreadyExists included.
RaisesOnAnyCode(r) ==
    /\ "Errors" \in DOMAIN r
    /\ Len(r.Errors) > 0
    /\ \E i \in 1..Len(r.Errors) :
          /\ "ErrorDetail" \in DOMAIN r.Errors[i]
          /\ "ErrorCode" \in DOMAIN r.Errors[i].ErrorDetail

\* A scan that looks at the first error only.
RaisesOnFirstError(r) ==
    /\ "Errors" \in DOMAIN r
    /\ Len(r.Errors) > 0
    /\ "ErrorDetail" \in DOMAIN r.Errors[1]
    /\ "ErrorCode" \in DOMAIN r.Errors[1].ErrorDetail
    /\ r.Errors[1].ErrorDetail.ErrorCode # AlreadyExists

\* Lines 38-43: whether the scan of the response's error list raises.
RaisesOnResponse(r) ==
    /\ "Errors" \in DOMAIN r
    /\ Len(r.Errors) > 0
    /\ \E i \in 1..Len(r.Errors) :
          /\ "ErrorDetail" \in DOMAIN r.Errors[i]
          /\ "ErrorCode" \in DOMAIN r.Errors[i].ErrorDetail
          /\ r.Errors[i].ErrorDetail.ErrorCode # AlreadyExists

\* Entering _add_partitions: chunks computed, the loop not yet started.
EnterAddPartitions ==
    /\ pc' = "loop"
    /\ idx' = 0
    /\ chunks' = chunkify(inputs, ChunkLen)
    /\ UNCHANGED <<fmt, partitions_values, res, exception, requests, catalog>>

\* An add_csv_partitions that sends its inputs in one request, without the
\* chunk loop.
add_csv_partitions_unchunked ==
    /\ pc = "idle" /\ fmt = "csv"
    /\ chunks' = <<inputs>>
    /\ \E r \in Responses(inputs, catalog) :
          /\ res' = r
          /\ catalog' = catalog \cup
                (IF "Errors" \in DOMAIN r
                 THEN Created(r.Errors, inputs)
                 ELSE Created(<<>>, inputs))
    /\ requests' = Append(requests, BatchCreateRequest(inputs))
    /\ idx' = 1
    /\ pc' = "classify"
    /\ UNCHANGED <<fmt, partitions_values, exception>>
    /\ UNCHANGED cvars

add_csv_partitions ==
    /\ pc = "idle" /\ fmt = "csv"
    /\ EnterAddPartitions
    /\ UNCHANGED cvars

add_json_partitions ==
    /\ pc = "idle" /\ fmt = "json"
    /\ EnterAddPartitions
    /\ UNCHANGED cvars

\* Parquet and ORC call _add_partitions only for a non-empty mapping.
add_parquet_partitions ==
    /\ pc = "idle" /\ fmt = "parquet"
    /\ IF Len(partitions_values) > 0
       THEN EnterAddPartitions
       ELSE /\ pc' = "returned"
            /\ UNCHANGED <<chunks, fmt, partitions_values, idx, res, exception, requests, catalog>>
    /\ UNCHANGED cvars

add_orc_partitions ==
    /\ pc = "idle" /\ fmt = "orc"
    /\ IF Len(partitions_values) > 0
       THEN EnterAddPartitions
       ELSE /\ pc' = "returned"
            /\ UNCHANGED <<chunks, fmt, partitions_values, idx, res, exception, requests, catalog>>
    /\ UNCHANGED cvars

\* One iteration of the for-loop up to the response (lines 34-37).
batch_create_partition ==
    /\ pc = "loop"
    /\ idx < Len(chunks)
    /\ LET chunk == chunks[idx + 1]
       IN  /\ \E r \in Responses(chunk, catalog) :
                 /\ res' = r
                 /\ catalog' = catalog \cup
                       (IF "Errors" \in DOMAIN r
                        THEN Created(r.Errors, chunk)
                        ELSE Created(<<>>, chunk))
           /\ requests' = Append(requests, BatchCreateRequest(chunk))
    /\ idx' = idx + 1
    /\ pc' = "classify"
    /\ UNCHANGED <<chunks, fmt, partitions_values, exception>>
    /\ UNCHANGED cvars

\* A scan that records the failure and lets the loop go on.
ClassifyDeferred ==
    /\ pc = "classify"
    /\ IF RaisesOnResponse(res)
       THEN exception' = [type |-> "ServiceApiError", message |-> Str(res.Errors)]
       ELSE UNCHANGED exception
    /\ pc' = "loop"
    /\ UNCHANGED <<chunks, fmt, partitions_values, idx, res, requests, catalog>>
    /\ UNCHANGED cvars

\* The scan of the response (lines 38-43).
Classify ==
    /\ pc = "classify"
    /\ IF RaisesOnResponse(res)
       THEN /\ pc' = "raised"
            /\ exception' = [type |-> "ServiceApiError", message |-> Str(res.Errors)]
       ELSE /\ pc' = "loop"
            /\ UNCHANGED exception
    /\ UNCHANGED <<chunks, fmt, partitions_values, idx, res, requests, catalog>>
    /\ UNCHANGED cvars

\* The loop is exhausted: _add_partitions, and the public operation, return.
Return ==
    /\ pc = "loop"
    /\ idx >= Len(chunks)
    /\ pc' = "returned"
    /\ UNCHANGED <<chunks, fmt, partitions_values, idx, res, exception, requests, catalog>>
    /\ UNCHANGED cvars

(***************************************************************************)
(* add_column                                                               *)
(***************************************************************************)
Callers == {1, 2}

ColumnNames == {"a", "b"}
ColumnTypes == {"string", "varchar2"}
ColumnComments == {"None", "note"}

\* catalog._definitions._LEGAL_COLUMN_TYPES, as far as ColumnTypes goes.
LegalColumnTypes == {"string"}

\* _check_column_type: True for a supported type, raises for any other.
check_column_type(column_type) ==
    IF column_type \in LegalColumnTypes THEN "True" ELSE "raise"

\* The columns a table may start with.
ExistingColumns ==
    <<[Name |-> "id", Type |-> "bigint", Comment |-> "None"],
      [Name |-> "ts", Type |-> "timestamp", Comment |-> "None"],
      [Name |-> "v", Type |-> "double", Comment |-> "None"]>>

TableWith(n) ==
    [Name |-> "table",
     StorageDescriptor |-> [Columns |-> SubSeq(ExistingColumns, 1, n)],
     VersionId |-> 0]

\* _update_table_definition: the fetched definition without the fields the
\* service manages.
update_table_definition(tres) ==
    [Name |-> tres.Table.Name,
     StorageDescriptor |-> tres.Table.StorageDescriptor]

\* The service's get_table.
GetTableResponse == [Table |-> table]

\* The error entries of an update_table response.
UpdateErrorEntry(shape) ==
    CASE shape = "NoDetail" ->
            [ErrorMessage |-> "failed"]
      [] shape = "DetailNoCode" ->
            [ErrorDetail |-> [ErrorMessage |-> "failed"]]
      [] shape = "AlreadyExists" ->
            [ErrorDetail |-> [ErrorCode |-> AlreadyExists, ErrorMessage |-> "exists"]]
      [] shape = "OtherCode" ->
            [ErrorDetail |-> [ErrorCode |-> InternalFailure, ErrorMessage |-> "failed"]]

\* The service's update_table: any error list, or no "Errors" key.
UpdateResponses ==
    { [ResponseMetadata |-> "ok",
       Errors |-> [i \in 1..Len(s) |-> UpdateErrorEntry(s[i])]]
        : s \in UNION {[1..n -> ErrorShapes] : n \in 0..MaxUpdateErrors} }
    \cup {[ResponseMetadata |-> "ok"]}

ReportsErrors(r) == "Errors" \in DOMAIN r /\ Len(r.Errors) > 0

\* The service replaces the table by the submitted definition unless it
\* reports an error; every replacement makes a new version.
TableAfterUpdate(tbl, table_input, r) ==
    IF ReportsErrors(r) THEN tbl
    ELSE [Name |-> table_input.Name,
          StorageDescriptor |-> table_input.StorageDescriptor,
          VersionId |-> tbl.VersionId + 1]

\* A guard that lets every type through.
TypeAcceptedAlways(column_type) == TRUE

\* Line 398: the guard of add_column's body.
TypeAccepted(column_type) == check_column_type(column_type) = "True"

\* Lines 402-404: the new column appended to the column list.
NewColumn(c) ==
    [Name |-> args[c].column_name, Type |-> args[c].column_type,
     Comment |-> args[c].column_comment]

\* The new column put first.
PrependColumn(columns, column) == <<column>> \o columns

AppendColumn(columns, column) == Append(columns, column)

\* A table input built from the table as it is at write time.
TableInputFromLive(c) ==
    LET table_input == update_table_definition([Table |-> table])
    IN  [table_input EXCEPT !.StorageDescriptor.Columns =
            Append(table_input.StorageDescriptor.Columns, NewColumn(c))]

\* Lines 401-404: the table input submitted by caller c.
TableInput(c) ==
    LET table_input == update_table_definition(table_res[c])
    IN  [table_input EXCEPT !.StorageDescriptor.Columns =
            AppendColumn(table_input.StorageDescriptor.Columns, NewColumn(c))]

\* Lines 408-412: whether the scan of the update_table response raises.
RaisesOnUpdateResponse(r) ==
    /\ "Errors" \in DOMAIN r
    /\ Len(r.Errors) > 0
    /\ \E i \in 1..Len(r.Errors) :
          /\ "ErrorDetail" \in DOMAIN r.Errors[i]
          /\ "ErrorCode" \in DOMAIN r.Errors[i].ErrorDetail

\* _check_column_type rejects the type: add_column ends before any call.
add_column_rejected(c) ==
    /\ cpc[c] = "idle"
    /\ check_column_type(args[c].column_type) = "raise"
    /\ cpc' = [cpc EXCEPT ![c] = "raised"]
    /\ cexception' = [cexception EXCEPT ![c] =
          [type |-> "ValidationError", message |-> args[c].column_type]]
    /\ UNCHANGED <<table, args, table_res, cres, calls>>
    /\ UNCHANGED pvars

\* Lines 398-400.
get_table(c) ==
    /\ cpc[c] = "idle"
    /\ TypeAccepted(args[c].column_type)
    /\ table_res' = [table_res EXCEPT ![c] = GetTableResponse]
    /\ calls' = [calls EXCEPT ![c] =
          Append(@, [Operation |-> "get_table", DatabaseName |-> "database",
                     Name |-> "table"])]
    /\ cpc' = [cpc EXCEPT ![c] = "fetched"]
    /\ UNCHANGED <<table, args, cres, cexception>>
    /\ UNCHANGED pvars

\* Lines 401-407.
update_table(c) ==
    /\ cpc[c] = "fetched"
    /\ \E r \in UpdateResponses :
          /\ cres' = [cres EXCEPT ![c] = r]
          /\ table' = TableAfterUpdate(table, TableInput(c), r)
    /\ calls' = [calls EXCEPT ![c] =
          Append(@, [Operation |-> "update_table", DatabaseName |-> "database",
                     TableInput |-> TableInput(c)])]
    /\ cpc' = [cpc EXCEPT ![c] = "classify"]
    /\ UNCHANGED <<args, table_res, cexception>>
    /\ UNCHANGED pvars

\* Lines 408-412.
ClassifyUpdate(c) ==
    /\ cpc[c] = "classify"
    /\ IF RaisesOnUpdateResponse(cres[c])
       THEN /\ cpc' = [cpc EXCEPT ![c] = "raised"]
            /\ cexception' = [cexception EXCEPT ![c] =
                  [type |-> "ServiceApiError", message |-> Str(cres[c].Errors)]]
       ELSE /\ cpc' = [cpc EXCEPT ![c] = "returned"]
            /\ UNCHANGED cexception
    /\ UNCHANGED <<table, args, table_res, cres, calls>>
    /\ UNCHANGED pvars

(***************************************************************************)
(* Specifications.                                                          *)
(***************************************************************************)
ColumnCallersIdle ==
    /\ cpc = [c \in Callers |-> "idle"]
    /\ table_res = [c \in Callers |-> [Table |-> table]]
    /\ cres = [c \in Callers |-> NoResponse]
    /\ cexception = [c \in Callers |-> NoException]
    /\ calls = [c \in Callers |-> <<>>]

PartitionCallIdle ==
    /\ pc = "idle"
    /\ chunks = <<>>
    /\ idx = 0
    /\ res = NoResponse
    /\ exception = NoException
    /\ requests = <<>>

\* One call of an add-partitions operation.
Init ==
    /\ fmt \in Formats
    /\ \E n \in 0..MaxRecords : partitions_values = [k \in 1..n |-> k]
    /\ \E p \in 0..MaxPreexisting :
          p <= Len(partitions_values) /\ catalog = 1..p
    /\ PartitionCallIdle
    /\ table = TableWith(0)
    /\ args = [c \in Callers |->
          [column_name |-> "a", column_type |-> "string", column_comment |-> "None"]]
    /\ ColumnCallersIdle

Next ==
    \/ add_csv_partitions
    \/ add_json_partitions
    \/ add_parquet_partitions
    \/ add_orc_partitions
    \/ batch_create_partition
    \/ Classify
    \/ Return

Spec == Init /\ [][Next]_vars

\* Two callers of add_column on one table.
InitColumn ==
    /\ fmt = "csv"
    /\ partitions_values = <<>>
    /\ catalog = {}
    /\ PartitionCallIdle
    /\ \E n \in 0..MaxInitColumns : table = TableWith(n)
    /\ args \in [Callers ->
          [column_name : ColumnNames, column_type : ColumnTypes,
           column_comment : ColumnComments]]
    /\ ColumnCallersIdle

NextColumn ==
    \E c \in Callers :
        \/ add_column_rejected(c)
        \/ get_table(c)
        \/ update_table(c)
        \/ ClassifyUpdate(c)

SpecColumn == InitColumn /\ [][NextColumn]_vars

(***************************************************************************)
(* Properties.                                                              *)
(***************************************************************************)
\* The last response has been scanned: res is the response of chunk idx.
Classified == idx >= 1 /\ pc \in {"loop", "returned", "raised"}

HasCode(e) == "ErrorDetail" \in DOMAIN e /\ "ErrorCode" \in DOMAIN e.ErrorDetail

\* No errors, or only errors whose code is AlreadyExistsException.
OnlyAlreadyExists(r) ==
    \/ "Errors" \notin DOMAIN r
    \/ \A i \in 1..Len(r.Errors) :
          HasCode(r.Errors[i]) /\ r.Errors[i].ErrorDetail.ErrorCode = AlreadyExists

\* Some error carries a code other than AlreadyExistsException.
HasOtherCode(r) ==
    /\ "Errors" \in DOMAIN r
    /\ \E i \in 1..Len(r.Errors) :
          HasCode(r.Errors[i]) /\ r.Errors[i].ErrorDetail.ErrorCode # AlreadyExists

\* Some error carries error detail without an error code.
HasDetailWithoutCode(r) ==
    /\ "Errors" \in DOMAIN r
    /\ \E i \in 1..Len(r.Errors) :
          /\ "ErrorDetail" \in DOMAIN r.Errors[i]
          /\ "ErrorCode" \notin DOMAIN r.Errors[i].ErrorDetail

ChunkLocations(i) == {chunks[i][k].Location : k \in 1..Len(chunks[i])}

\* C1: a response with no errors, or with AlreadyExistsException errors only,
\* does not raise: the call carries no exception, the loop goes on to the next
\* chunk while one is left, and a call that returned has issued every chunk.
C1_AlreadyExistsIsSuccess ==
    (Classified /\ OnlyAlreadyExists(res)) =>
        /\ pc \in {"loop", "returned"}
        /\ exception = NoException
        /\ (pc = "loop" /\ idx < Len(chunks)) => ENABLED batch_create_partition
        /\ (pc = "loop" /\ idx >= Len(chunks)) => ENABLED Return
        /\ pc = "returned" => Len(requests) = Len(chunks)

C1_Witness ==
    /\ pc = "loop" /\ idx = 1 /\ Len(chunks) >= 2
    /\ "Errors" \in DOMAIN res /\ Len(res.Errors) >= 1
    /\ OnlyAlreadyExists(res)

\* C2: a response with an error whose code is not AlreadyExistsException
\* raises a ServiceApiError, wherever that error sits in the list; the message
\* is the rendering of that response's whole error list, every entry of which
\* is about a record of the chunk just sent.
C2_OtherCodeRaises ==
    (Classified /\ HasOtherCode(res)) =>
        /\ pc = "raised"
        /\ exception = [type |-> "ServiceApiError", message |-> Str(res.Errors)]
        /\ \A i \in 1..Len(exception.message.repr) :
              exception.message.repr[i].PartitionValues \in ChunkLocations(idx)

C2_Witness ==
    /\ pc = "raised"
    /\ Len(res.Errors) >= 2
    /\ HasCode(res.Errors[1])
    /\ res.Errors[1].ErrorDetail.ErrorCode = AlreadyExists
    /\ HasOtherCode(res)
    /\ exception.message = Str(res.Errors)

\* C3: a response with an error that carries error detail without an error
\* code makes the call fail.
C3_DetailWithoutCodeRaises ==
    (Classified /\ HasDetailWithoutCode(res)) => pc = "raised"

\* C4: the catalog never loses a partition; once an exception is raised no
\* further request is issued; a request is issued only from the head of the
\* loop, after the previous response was scanned, is a batch_create_partition
\* and carries the next chunk in order, so no chunk is sent twice.
C4_FailFastInOrder ==
    [][ /\ catalog \subseteq catalog'
        /\ exception # NoException => requests' = requests
        /\ requests' # requests =>
              /\ pc = "loop" /\ pc' = "classify"
              /\ Len(requests') = Len(requests) + 1
              /\ SubSeq(requests', 1, Len(requests)) = requests
              /\ requests'[Len(requests')].Operation = "batch_create_partition"
              /\ requests'[Len(requests')].PartitionInputList = chunks[Len(requests')]
      ]_vars

C4_Witness ==
    /\ pc = "raised"
    /\ Len(chunks) = 3 /\ idx = 2 /\ Len(requests) = 2
    /\ ChunkLocations(1) \cap catalog # {}
    /\ ChunkLocations(3) \cap catalog = {}

RECURSIVE Flatten(_)
Flatten(seqs) ==
    IF Len(seqs) = 0 THEN <<>> ELSE Head(seqs) \o Flatten(Tail(seqs))

CeilDiv(n, d) == (n + d - 1) \div d

\* C5: a call that returns has issued ceil(N / 100) requests, each a
\* batch_create_partition of at most 100 records, and the records of the
\* requests, in issue order, are the inputs in their order.
C5_ChunksCoverInputs ==
    pc = "returned" =>
        /\ Len(requests) = CeilDiv(Len(partitions_values), ChunkLen)
        /\ \A i \in 1..Len(requests) :
              /\ requests[i].Operation = "batch_create_partition"
              /\ Len(requests[i].PartitionInputList) <= ChunkLen
        /\ Flatten([i \in 1..Len(requests) |-> requests[i].PartitionInputList]) = inputs

C5_Witness ==
    /\ pc = "returned"
    /\ Len(partitions_values) = 2 * ChunkLen + 1
    /\ Len(requests) = 3

\* C6: with an empty mapping no request is issued and the call returns
\* without an exception, whichever the format.
C6_EmptyMappingNoRequest ==
    (Len(partitions_values) = 0 /\ pc # "idle") =>
        /\ requests = <<>>
        /\ exception = NoException
        /\ \/ pc = "returned"
           \/ pc = "loop" /\ ENABLED Return /\ ~ ENABLED batch_create_partition

C6_Witness ==
    /\ Len(partitions_values) = 0
    /\ fmt = "csv"
    /\ pc = "returned"
    /\ requests = <<>>

Supported(column_type) == column_type \in LegalColumnTypes

\* C7: a call with an unsupported column type ends with a validation error
\* and has issued no remote call; when no caller passes a supported type the
\* table stays as it was.
C7_TypeCheckedBeforeCalls ==
    /\ \A c \in Callers :
          ~ Supported(args[c].column_type) =>
              /\ calls[c] = <<>>
              /\ cpc[c] \in {"idle", "raised"}
              /\ cpc[c] = "raised" => cexception[c].type = "ValidationError"
    /\ (\A c \in Callers : ~ Supported(args[c].column_type)) =>
          \E n \in 0..MaxInitColumns : table = TableWith(n)

C7_Witness ==
    /\ ~ Supported(args[1].column_type)
    /\ cpc[1] = "raised"
    /\ cexception[1].type = "ValidationError"
    /\ cpc[2] = "returned"

\* C8: whenever the update_table response reports an error, add_column ends
\* with a ServiceApiError that carries the response's error list.
C8_AnyUpdateErrorRaises ==
    \A c \in Callers :
        (cpc[c] \in {"returned", "raised"} /\ ReportsErrors(cres[c])) =>
            /\ cpc[c] = "raised"
            /\ cexception[c] = [type |-> "ServiceApiError",
                                message |-> Str(cres[c].Errors)]

\* Both callers returned, both updates were accepted, both had read the same
\* version of the table, and their columns differ in name.
LostUpdateRun(c, d) ==
    /\ c # d
    /\ cpc[c] = "returned" /\ cpc[d] = "returned"
    /\ ~ ReportsErrors(cres[c]) /\ ~ ReportsErrors(cres[d])
    /\ table_res[c].Table.VersionId = table_res[d].Table.VersionId
    /\ args[c].column_name # args[d].column_name

\* C9: no update_table request carries the version that was read; and when
\* both callers read the table before either writes it, both writes are
\* accepted (two new versions) and both calls return, yet the table holds the
\* columns read plus one of the two new columns only.
C9_LostUpdate ==
    /\ \A c \in Callers : \A i \in 1..Len(calls[c]) :
          calls[c][i].Operation = "update_table" =>
              /\ "VersionId" \notin DOMAIN calls[c][i]
              /\ "VersionId" \notin DOMAIN calls[c][i].TableInput
    /\ \A c, d \in Callers :
          LostUpdateRun(c, d) =>
              LET fetched == table_res[c].Table.StorageDescriptor.Columns
              IN  /\ table.VersionId = table_res[c].Table.VersionId + 2
                  /\ table.StorageDescriptor.Columns \in
                        {Append(fetched, NewColumn(c)), Append(fetched, NewColumn(d))}

C9_Witness ==
    /\ LostUpdateRun(1, 2)
    /\ Len(table.StorageDescriptor.Columns) =
          Len(table_res[1].Table.StorageDescriptor.Columns) + 1

\* Caller d read the table that caller c's accepted update produced, and
\* both add a column of the same name.
SameColumnTwice(c, d) ==
    /\ c # d
    /\ cpc[c] = "returned" /\ cpc[d] = "returned"
    /\ ~ ReportsErrors(cres[c]) /\ ~ ReportsErrors(cres[d])
    /\ table_res[d].Table.VersionId = table_res[c].Table.VersionId + 1
    /\ args[c].column_name = args[d].column_name

\* C10: a call that returned has issued one get_table and then one
\* update_table, whose column list is the fetched list with the new column
\* appended last; adding a column of the same name a second time leaves the
\* table with both.
C10_AppendsLast ==
    /\ \A c \in Callers :
          cpc[c] = "returned" =>
              /\ Len(calls[c]) = 2
              /\ calls[c][1].Operation = "get_table"
              /\ calls[c][2].Operation = "update_table"
              /\ calls[c][2].TableInput.StorageDescriptor.Columns =
                    Append(table_res[c].Table.StorageDescriptor.Columns, NewColumn(c))
    /\ \A c, d \in Callers :
          SameColumnTwice(c, d) =>
              table.StorageDescriptor.Columns =
                  table_res[c].Table.StorageDescriptor.Columns
                      \o <<NewColumn(c), NewColumn(d)>>

C10_Witness ==
    /\ SameColumnTwice(1, 2)
    /\ Len(table_res[1].Table.StorageDescriptor.Columns) = 2
    /\ Len(table.StorageDescriptor.Columns) = 4

====
